---- MODULE Spec2Model ----
(***************************************************************************)
(* A model of src/combined/egnn.py: the random-Fourier-feature encoder     *)
(* RFF, the message-passing layer EGNNLayer and the network EGNN_Full.     *)
(*                                                                         *)
(* Tensors are modelled exactly over the integers.  The network is the    *)
(* instance hidden_features = node_features = out_features = 1 with        *)
(* norm = "none", activation = "relu" and RFF_dim = None, so a node        *)
(* embedding is one integer, a Linear layer is an affine map with integer  *)
(* weights and every activation is max(0, .).  Node ids are 1..NumNodes    *)
(* (tensor index i-1 of the code), edges are positions 1..Len(row) of the  *)
(* two rows of edge_index.  An optional value (Python None or a tensor)    *)
(* is the empty tuple or the one-element tuple holding the value.          *)
(***************************************************************************)
EXTENDS Integers, Sequences, FiniteSets

\* ------------------------------------------------------------------ bounds
NumNodes == 2
MaxEdges == 2
MaxDepth == 2
MaxOut == 8

VARIABLES pc, ctor, model, convs, batch, h, distances, log, out, rff

vars == <<pc, ctor, model, convs, batch, h, distances, log, out, rff>>

\* ------------------------------------------------------------ option values
None == <<>>

Some(v) == <<v>>

Nodes == 1..NumNodes

\* ------------------------------------------------------------------- RFF
\* in_features offered to the RFF constructor (the layer itself passes 1).
InFeatureChoices == {1, 2, 3}

\* leading (batch) dimension of the tensor handed to RFF.forward
LeadChoices == {1, 2}

\* int(out_features / 2) for a positive integer: true division, truncated.
IntHalf(n) == n \div 2

CompensationNever(out_features) == 0

\* RFF.__init__, lines 15-18
Compensation(out_features) == IF out_features % 2 # 0 THEN 1 ELSE 0

\* RFF.__init__, line 20: B has int(out_features/2) + compensation rows
BShape(in_features, out_features) ==
  <<IntHalf(out_features) + Compensation(out_features), in_features>>

\* F.linear(x, B): x of shape [lead, in], B of shape [rows, in] -> [lead, rows]
LinearShape(xshape, bshape) == <<xshape[1], bshape[1]>>

\* torch.cat((x.sin(), x.cos()), dim=-1)
CatShape(xshape) == <<xshape[1], xshape[2] + xshape[2]>>

\* x[..., :-1]
DropLastShape(xshape) == <<xshape[1], IF xshape[2] > 0 THEN xshape[2] - 1 ELSE 0>>

RFFIdle ==
  [pc |-> "new", in_features |-> 0, out_features |-> 0, compensation |-> 0,
   B |-> <<0, 0>>, x |-> <<0, 0>>, lin |-> <<0, 0>>, cat |-> <<0, 0>>]

RFFConstruct ==
  /\ rff.pc = "new"
  /\ \E i \in InFeatureChoices, o \in 1..MaxOut :
       rff' = [rff EXCEPT !.pc = "built", !.in_features = i, !.out_features = o,
                          !.compensation = Compensation(o), !.B = BShape(i, o)]
  /\ UNCHANGED <<pc, ctor, model, convs, batch, h, distances, log, out>>

\* RFF.forward, line 25
RFFLinear ==
  /\ rff.pc = "built"
  /\ \E lead \in LeadChoices :
       rff' = [rff EXCEPT !.pc = "linear",
                          !.x = LinearShape(<<lead, rff.in_features>>, rff.B),
                          !.lin = LinearShape(<<lead, rff.in_features>>, rff.B)]
  /\ UNCHANGED <<pc, ctor, model, convs, batch, h, distances, log, out>>

\* RFF.forward, line 26
RFFCat ==
  /\ rff.pc = "linear"
  /\ rff' = [rff EXCEPT !.pc = "cat", !.x = CatShape(rff.x), !.cat = CatShape(rff.x)]
  /\ UNCHANGED <<pc, ctor, model, convs, batch, h, distances, log, out>>

\* RFF.forward, lines 27-29
RFFReturn ==
  /\ rff.pc = "cat"
  /\ rff' = [rff EXCEPT !.pc = "returned",
                        !.x = IF rff.compensation # 0 THEN DropLastShape(rff.x) ELSE rff.x]
  /\ UNCHANGED <<pc, ctor, model, convs, batch, h, distances, log, out>>

\* ------------------------------------------------------------ EGNN: tensors
Relu(v) == IF v > 0 THEN v ELSE 0

\* emb_in = nn.Linear(node_features, hidden_features), applied per node
EmbIn(x) == [i \in DOMAIN x |-> 2 * x[i] + 1]

Sq(a) == a * a

\* torch.norm(v, dim=-1) of a 3-vector; the positions offered below have
\* integer pairwise distances, so the root is exact.
Norm(v) ==
  LET s == Sq(v[1]) + Sq(v[2]) + Sq(v[3])
  IN  CHOOSE r \in 0..s : Sq(r) <= s /\ Sq(r + 1) > s

VecSub(a, b) == <<a[1] - b[1], a[2] - b[2], a[3] - b[3]>>

DistancesFromRowOnly(pos, row, col) ==
  [k \in 1..Len(row) |-> Norm(VecSub(pos[row[k]], pos[row[k]]))]

\* EGNN_Full.forward, line 154
Distances(pos, row, col) ==
  [k \in 1..Len(row) |-> Norm(VecSub(pos[row[k]], pos[col[k]]))]

\* mlp_msg of layer l on cat([h_i, h_j, distances]):
\* Linear -> Identity -> ReLU -> Linear -> Identity -> ReLU
MlpMsg(l, h_i, h_j, d) == Relu(Relu(2 * h_i + h_j - d + l) - l)

\* mlp_upd of layer l on cat([h, msg_aggr])
MlpUpd(l, hv, m) == Relu(2 * Relu(hv + m - 4 * l) + 1)

\* EGNNLayer.message, lines 73-79 (RFF_dim is None)
Message(l, h_i, h_j, d) == MlpMsg(l, h_i, h_j, d)

TargetIndexRow(edge_index) == edge_index[1]

\* MessagePassing with the default flow "source_to_target" (line 40 passes
\* only aggr): the node i of message(h_i, h_j) and of the aggregation is
\* edge_index[1] of the code, the second row; j is edge_index[0], the first.
TargetIndex(edge_index) == edge_index[2]

SourceIndex(edge_index) == edge_index[1]

\* the per-edge messages computed by propagate, line 70
Messages(l, edge_index, hh, dist) ==
  [k \in 1..Len(edge_index[1]) |->
     Message(l, hh[TargetIndex(edge_index)[k]], hh[SourceIndex(edge_index)[k]], dist[k])]

\* scatter-sum over the edges in listed order into a zero tensor
RECURSIVE ScatterAdd(_, _, _, _)
ScatterAdd(msgs, index, k, acc) ==
  IF k > Len(msgs) THEN acc
  ELSE ScatterAdd(msgs, index, k + 1,
                  [acc EXCEPT ![index[k]] = acc[index[k]] + msgs[k]])

RECURSIVE ScatterLast(_, _, _, _)
ScatterLast(msgs, index, k, acc) ==
  IF k > Len(msgs) THEN acc
  ELSE ScatterLast(msgs, index, k + 1, [acc EXCEPT ![index[k]] = msgs[k]])

AggregateOverwrite(msgs, index) ==
  ScatterLast(msgs, index, 1, [i \in Nodes |-> 0])

\* aggr = "sum" (lines 40, 102): aggregation of propagate
Aggregate(msgs, index) ==
  ScatterAdd(msgs, index, 1, [i \in Nodes |-> 0])

UpdateIgnoringMask(l, selfMask, aggr_out, hh) ==
  [i \in Nodes |-> MlpUpd(l, hh[i], aggr_out[i])]

\* EGNNLayer.update, lines 81-86; selfMask is self.mask
Update(l, selfMask, aggr_out, hh) ==
  LET upd_out == [i \in Nodes |-> MlpUpd(l, hh[i], aggr_out[i])]
  IN  IF selfMask # None
      THEN [i \in Nodes |-> IF selfMask[1][i] THEN upd_out[i] ELSE hh[i]]
      ELSE upd_out

\* EGNNLayer.forward, line 69: self.mask = mask
SetMask(layer, mask) == [layer EXCEPT !.mask = mask]

ResidualDropped(hh, h_update, residual) == h_update

\* EGNN_Full.forward, line 157
ResidualStep(hh, h_update, residual) ==
  IF residual THEN [i \in Nodes |-> hh[i] + h_update[i]] ELSE h_update

\* ---------------------------------------------------------- EGNN: readout
\* A pooled value is the exact fraction num/den, den > 0.
RECURSIVE SumOver(_, _)
SumOver(f, S) ==
  IF S = {} THEN 0
  ELSE LET i == CHOOSE j \in S : TRUE IN f[i] + SumOver(f, S \ {i})

Members(b, g) == {i \in DOMAIN b : b[i] = g}

GraphIds(b) == {b[i] : i \in DOMAIN b}

\* tg.nn.global_add_pool(h, batch)
GlobalAddPool(hh, b) ==
  [g \in GraphIds(b) |-> [num |-> SumOver(hh, Members(b, g)), den |-> 1]]

\* tg.nn.global_mean_pool(h, batch)
GlobalMeanPool(hh, b) ==
  [g \in GraphIds(b) |->
     [num |-> SumOver(hh, Members(b, g)), den |-> Cardinality(Members(b, g))]]

PoolTableSum == [mean |-> "global_mean_pool", sum |-> "global_add_pool"]

\* the lookup table of line 139
PoolTable == [mean |-> "global_mean_pool", add |-> "global_add_pool"]

\* self.pool(h, batch.batch), line 159
ApplyPool(fn, hh, b) ==
  IF fn = "global_mean_pool" THEN GlobalMeanPool(hh, b) ELSE GlobalAddPool(hh, b)

\* self.pred, lines 142-146: Linear -> ReLU -> Linear on num/den
Pred(v) ==
  [g \in DOMAIN v |->
     [num |-> 3 * Relu(v[g].num - 2 * v[g].den) - v[g].den, den |-> v[g].den]]

\* ------------------------------------------------------------ EGNN: inputs
\* node feature tensors offered as batch.x: node i carries the feature i
XChoices == {[i \in Nodes |-> i]}

\* coordinate tensors offered as batch.pos
PosChoices ==
  {[i \in Nodes |-> <<3 * i, 0, 0>>],
   [i \in Nodes |-> IF i % 2 = 1 THEN <<3, 0, 0>> ELSE <<0, 4, 0>>]}

\* edge_index = (row, col): two equally long sequences of node ids
EdgeIndexChoices ==
  UNION {[{1, 2} -> [1..n -> Nodes]] : n \in 0..MaxEdges}

\* batch.mask: absent, or one boolean per node
MaskChoices == {None} \cup {Some(m) : m \in [Nodes -> BOOLEAN]}

\* the mask argument of the constructor
DefaultMaskChoices == {None, Some([i \in Nodes |-> i # 1])}

PoolNames == {"mean", "add", "sum"}

NoBatch ==
  [x |-> <<>>, pos |-> <<>>, edge_index |-> <<<<>>, <<>>>>, batch |-> <<>>,
   mask |-> None]

NoModel == [depth |-> 0, residual |-> FALSE, pool |-> "", mask |-> None]

\* ----------------------------------------------------------- EGNN: actions
\* EGNN_Full.__init__, lines 94-147.  An unknown pool name raises KeyError
\* at line 139 and no object is built.
Construct ==
  /\ pc = "new"
  /\ \E depth \in 1..MaxDepth, residual \in BOOLEAN, pool \in PoolNames,
        mask \in DefaultMaskChoices :
       /\ ctor' = [depth |-> depth, residual |-> residual, pool |-> pool,
                   mask |-> mask]
       /\ IF pool \in DOMAIN PoolTable
          THEN /\ model' = [depth |-> depth, residual |-> residual,
                            pool |-> PoolTable[pool], mask |-> mask]
               /\ convs' = [l \in 1..depth |-> [mask |-> mask]]
               /\ pc' = "ready"
          ELSE /\ pc' = "KeyError"
               /\ UNCHANGED <<model, convs>>
  /\ UNCHANGED <<batch, h, distances, log, out, rff>>

\* EGNN_Full.forward, lines 150-154: the embedding of batch.x and the
\* distances, both before the loop
Forward ==
  /\ pc = "ready"
  /\ \E x \in XChoices, pos \in PosChoices, ei \in EdgeIndexChoices,
        mask \in MaskChoices :
       /\ batch' = [x |-> x, pos |-> pos, edge_index |-> ei,
                    batch |-> [i \in Nodes |-> 1], mask |-> mask]
       /\ h' = EmbIn(x)
       /\ distances' = Distances(pos, ei[1], ei[2])
  /\ pc' = "conv"
  /\ UNCHANGED <<ctor, model, convs, log, out, rff>>

\* one iteration of the loop of lines 155-157: the call conv(h, edge_index,
\* distances, mask) (EGNNLayer.forward, lines 68-71, with propagate's
\* message, aggregation and update) and the assignment to h.
ConvStep ==
  /\ pc = "conv"
  /\ Len(log) < Len(convs)
  /\ \E l \in {Len(log) + 1} :
     \E layer \in {SetMask(convs[l], batch.mask)} :
     \E msg \in {Messages(l, batch.edge_index, h, distances)} :
     \E aggr_out \in {Aggregate(msg, TargetIndex(batch.edge_index))} :
     \E h_update \in {Update(l, layer.mask, aggr_out, h)} :
     \E h_out \in {ResidualStep(h, h_update, model.residual)} :
       /\ convs' = [convs EXCEPT ![l] = layer]
       /\ h' = h_out
       /\ log' = Append(log, [layer |-> l, mask |-> batch.mask, h_in |-> h,
                              edge_index |-> batch.edge_index,
                              distances |-> distances, msg |-> msg,
                              aggr_out |-> aggr_out, h_update |-> h_update,
                              h_out |-> h_out])
  /\ UNCHANGED <<pc, ctor, model, batch, distances, out, rff>>

\* EGNN_Full.forward, lines 159-160, reached when the loop is exhausted
Return ==
  /\ pc = "conv"
  /\ Len(log) = Len(convs)
  /\ out' = Some(Pred(ApplyPool(model.pool, h, batch.batch)))
  /\ pc' = "done"
  /\ UNCHANGED <<ctor, model, convs, batch, h, distances, log, rff>>

\* -------------------------------------------------------- specifications
Init ==
  /\ pc = "new"
  /\ ctor = NoModel
  /\ model = NoModel
  /\ convs = <<>>
  /\ batch = NoBatch
  /\ h = <<>>
  /\ distances = <<>>
  /\ log = <<>>
  /\ out = None
  /\ rff = RFFIdle

Next == Construct \/ Forward \/ ConvStep \/ Return

Spec == Init /\ [][Next]_vars

NextRFF == RFFConstruct \/ RFFLinear \/ RFFCat \/ RFFReturn

SpecRFF == Init /\ [][NextRFF]_vars

\* ------------------------------------------------------------------ claims
Steps == 1..Len(log)

Edges(n) == 1..Len(log[n].edge_index[1])

Row(n) == log[n].edge_index[1]

Col(n) == log[n].edge_index[2]

Started == pc \in {"conv", "done"}

\* C1: in a forward pass on a batch that carries a mask, a node whose mask
\* entry is false has after every layer step the embedding it had before the
\* step, hence emb_in(x) of that node throughout, with or without residual.
C1_FrozenThroughStack ==
  \A n \in Steps : log[n].mask # None =>
    \A i \in Nodes : ~log[n].mask[1][i] =>
      /\ log[n].h_out[i] = log[n].h_in[i]
      /\ log[n].h_out[i] = EmbIn(batch.x)[i]

\* C2: a layer call with a mask returns, at every node whose mask entry is
\* false, exactly the input embedding of the node, and at every other node
\* the output of the update function on the node's embedding and its
\* aggregated message.
C2_MaskPassThrough ==
  \A n \in Steps : log[n].mask # None =>
    \A i \in Nodes :
      log[n].h_update[i] =
        IF log[n].mask[1][i]
        THEN MlpUpd(log[n].layer, log[n].h_in[i], log[n].aggr_out[i])
        ELSE log[n].h_in[i]

\* a layer call with a mask in which a frozen node has incoming messages and
\* an update that differs from its embedding, next to an active node
C2_Witness ==
  \E n \in Steps : log[n].mask # None /\
    \E i, j \in Nodes :
      /\ ~log[n].mask[1][i]
      /\ log[n].mask[1][j]
      /\ log[n].aggr_out[i] > 0
      /\ MlpUpd(log[n].layer, log[n].h_in[i], log[n].aggr_out[i]) # log[n].h_in[i]
      /\ log[n].h_update[i] = log[n].h_in[i]

\* C3: a layer built with a default mask applies it in a call that supplies
\* no mask, and a mask supplied to the call takes precedence over it.
C3_DefaultMaskApplied ==
  \A n \in Steps :
    LET effective == IF log[n].mask # None THEN log[n].mask ELSE ctor.mask
    IN  effective # None =>
          \A i \in Nodes : ~effective[1][i] => log[n].h_update[i] = log[n].h_in[i]

\* C4: RFF.forward returns a last dimension of exactly out_features: the
\* projection has int(out_features/2) + compensation rows, the sin/cos
\* concatenation twice as many columns, and one column is dropped exactly
\* when out_features is odd.
C4_RFFWidth ==
  LET o == rff.out_features
      odd == o % 2 = 1
  IN  /\ rff.pc # "new" =>
           /\ rff.compensation = (IF odd THEN 1 ELSE 0)
           /\ rff.B[1] = (o \div 2) + rff.compensation
      /\ rff.pc \in {"linear", "cat", "returned"} => rff.lin[2] = rff.B[1]
      /\ rff.pc \in {"cat", "returned"} => rff.cat[2] = 2 * rff.B[1]
      /\ rff.pc = "returned" =>
           /\ rff.x[2] = o
           /\ rff.cat[2] - rff.x[2] = (IF odd THEN 1 ELSE 0)

\* the odd case of the spec's scenario has returned, one column dropped
C4_Witness ==
  /\ rff.pc = "returned"
  /\ rff.out_features = 7
  /\ rff.cat[2] = 8
  /\ rff.x[2] = 7

\* C5: the layers run once each in construction order, depth in all; each
\* receives the h left by the step before it, h becomes h + update with
\* residual and update without, and the readout comes after the last layer.
C5_LayersInOrder ==
  /\ Started => Len(convs) = model.depth /\ Len(log) <= model.depth
  /\ \A n \in Steps :
       /\ log[n].layer = n
       /\ log[n].h_in = (IF n = 1 THEN EmbIn(batch.x) ELSE log[n - 1].h_out)
       /\ log[n].edge_index = batch.edge_index
       /\ log[n].mask = batch.mask
       /\ \A i \in Nodes :
            log[n].h_out[i] =
              IF model.residual THEN log[n].h_in[i] + log[n].h_update[i]
              ELSE log[n].h_update[i]
  /\ Started => h = (IF log = <<>> THEN EmbIn(batch.x) ELSE log[Len(log)].h_out)
  /\ out # None <=> pc = "done"
  /\ pc = "done" => Len(log) = model.depth

\* a finished pass through two layers with the residual connection on
C5_Witness ==
  /\ pc = "done"
  /\ model.residual
  /\ Len(log) = 2
  /\ log[2].layer = 2
  /\ log[2].h_in = log[1].h_out
  /\ log[1].h_out # log[1].h_update

\* C6: with sum aggregation the update function receives, for a node that is
\* the destination of no edge, zero, and for any other node the sum of the
\* messages of the edges whose destination it is, whatever their order.
\* (The destination is the node i of the message, see C9.)
C6_SumAggregation ==
  \A n \in Steps : \A i \in Nodes :
    LET incoming == {k \in Edges(n) : Col(n)[k] = i}
    IN  /\ incoming = {} => log[n].aggr_out[i] = 0
        /\ log[n].aggr_out[i] = SumOver(log[n].msg, incoming)

\* one node collects two non-zero messages while another has no incoming edge
C6_Witness ==
  \E n \in Steps : \E i, j \in Nodes :
    /\ Cardinality({k \in Edges(n) : Col(n)[k] = i /\ log[n].msg[k] > 0}) >= 2
    /\ {k \in Edges(n) : Col(n)[k] = j} = {}
    /\ log[n].aggr_out[j] = 0
    /\ log[n].aggr_out[i] > 0

ReadoutOf(name, hh, b) ==
  IF name = "mean" THEN GlobalMeanPool(hh, b) ELSE GlobalAddPool(hh, b)

\* C7 as stated: construction with pool "mean" or "sum" succeeds and selects
\* mean or sum pooling.
C7_MeanOrSumSucceed ==
  (pc # "new" /\ ctor.pool \in {"mean", "sum"}) =>
    /\ pc # "KeyError"
    /\ model.pool = (IF ctor.pool = "mean" THEN "global_mean_pool"
                     ELSE "global_add_pool")

\* C7 as amended: construction with pool "mean" or "add" succeeds and selects
\* mean or sum pooling as the readout; pool "sum" is no key of the lookup and
\* construction fails with KeyError.
C7_MeanOrAddSucceed ==
  /\ (pc # "new" /\ ctor.pool \in {"mean", "add"}) =>
       /\ pc # "KeyError"
       /\ model.pool = (IF ctor.pool = "mean" THEN "global_mean_pool"
                        ELSE "global_add_pool")
       /\ pc = "done" => out = Some(Pred(ReadoutOf(ctor.pool, h, batch.batch)))
  /\ (pc # "new" /\ ctor.pool = "sum") => pc = "KeyError"

\* a pass of a model built with pool "add" has returned the sum readout
C7_Witness ==
  /\ pc = "done"
  /\ ctor.pool = "add"
  /\ model.pool = "global_add_pool"
  /\ out = Some(Pred(GlobalAddPool(h, batch.batch)))

\* C8: a forward call leaves every attribute of the model and of each layer,
\* the layer's stored mask included, as construction left it.
C8_ForwardLeavesStateUnchanged ==
  Started =>
    /\ model = [depth |-> ctor.depth, residual |-> ctor.residual,
                pool |-> PoolTable[ctor.pool], mask |-> ctor.mask]
    /\ \A l \in 1..Len(convs) : convs[l].mask = ctor.mask

\* C9 as stated: row[k] is the destination i and col[k] the source j of edge
\* k: the message is computed from (h[row[k]], h[col[k]], distances[k]) and
\* aggregated into row[k].
C9_RowIsDestination ==
  \A n \in Steps :
    /\ \A k \in Edges(n) :
         log[n].msg[k] =
           Message(log[n].layer, log[n].h_in[Row(n)[k]], log[n].h_in[Col(n)[k]],
                   log[n].distances[k])
    /\ \A i \in Nodes :
         log[n].aggr_out[i] = SumOver(log[n].msg, {k \in Edges(n) : Row(n)[k] = i})

\* C9 as amended: col[k] is the destination i and row[k] the source j of edge
\* k: the message is computed from (h[col[k]], h[row[k]], distances[k]) and
\* aggregated into col[k], not into row[k].
C9_ColIsDestination ==
  \A n \in Steps :
    /\ \A k \in Edges(n) :
         log[n].msg[k] =
           Message(log[n].layer, log[n].h_in[Col(n)[k]], log[n].h_in[Row(n)[k]],
                   log[n].distances[k])
    /\ \A i \in Nodes :
         log[n].aggr_out[i] = SumOver(log[n].msg, {k \in Edges(n) : Col(n)[k] = i})

\* an edge between two nodes of different embeddings whose message went to
\* col[k] alone and differs from the message of the swapped arguments
C9_Witness ==
  \E n \in Steps : \E k \in Edges(n) :
    /\ Len(Row(n)) = 1
    /\ Row(n)[k] # Col(n)[k]
    /\ log[n].h_in[Row(n)[k]] # log[n].h_in[Col(n)[k]]
    /\ log[n].msg[k] > 0
    /\ log[n].msg[k] # Message(log[n].layer, log[n].h_in[Row(n)[k]],
                               log[n].h_in[Col(n)[k]], log[n].distances[k])
    /\ log[n].aggr_out[Col(n)[k]] = log[n].msg[k]
    /\ log[n].aggr_out[Row(n)[k]] = 0

\* the distances are those of the endpoints' positions, and what each layer
\* received is the distance tensor and the edge_index of the batch
C10_AtEveryLayer ==
  Started =>
    /\ Len(distances) = Len(batch.edge_index[1])
    /\ \A k \in 1..Len(distances) :
         LET a == batch.pos[batch.edge_index[1][k]]
             b == batch.pos[batch.edge_index[2][k]]
         IN  /\ distances[k] >= 0
             /\ Sq(distances[k]) = Sq(a[1] - b[1]) + Sq(a[2] - b[2]) + Sq(a[3] - b[3])
    /\ \A n \in Steps :
         /\ log[n].distances = distances
         /\ log[n].edge_index = batch.edge_index

\* C10: the distances are computed once, before the first layer, from the
\* positions of the two endpoints of each edge; every layer receives that same
\* tensor, and no step of the pass changes distances, pos or edge_index.
C10_DistancesOnce ==
  /\ []C10_AtEveryLayer
  /\ [][pc = "conv" => (distances' = distances /\ batch' = batch)]_vars

\* both layers of a pass have received the distances of an edge of length 5
\* and of a self-loop
C10_Witness ==
  /\ pc = "done"
  /\ Len(log) = 2
  /\ Len(distances) = 2
  /\ distances[1] = 5
  /\ distances[2] = 0
  /\ log[1].distances = distances
  /\ log[2].distances = distances

====
